---- MODULE Spec2Model ----
(***************************************************************************)
(* A model of src/src/app/components/scene.jsx: the per-frame animation    *)
(* callbacks (useFrame) and the pointer/click/change handlers of the       *)
(* scene's components.                                                     *)
(*                                                                         *)
(* Numbers.  A JavaScript number is modelled as an exact rational          *)
(* <<numerator, denominator>> in lowest terms with a positive denominator; *)
(* NaN is <<0, 0>>.  Rounding of IEEE doubles is not modelled.             *)
(*                                                                         *)
(* Reals.  An elapsed time or an angle is a real number of the form        *)
(*     q * (pi/2) + n * theta + s,     theta = atan(3/4),                  *)
(* written [q |-> q, n |-> n, s |-> s] with q, n integers and s rational.  *)
(* sin(theta) = 3/5 and cos(theta) = 4/5, so Math.sin and Math.cos are     *)
(* exact and rational on the angles with s = 0; the wormhole's progress    *)
(* (a remainder modulo 1) is exact on the times with q = n = 0.            *)
(*                                                                         *)
(* Clock.  state.clock.getElapsedTime() is read once by each callback; a   *)
(* callback's successive readings are non-decreasing.  Each component      *)
(* keeps its last reading in the field "time".                             *)
(***************************************************************************)
EXTENDS Integers, Sequences, FiniteSets

(***************************************************************************)
(* Bounds of the model.                                                    *)
(***************************************************************************)
MaxTick == 6
MaxFrames == 3
MaxClicks == 3
MaxQuarter == 3
MaxTheta == 1
MaxPanelFrames == 6
MaxSceneTick == 3
MaxSceneFrames == 2
MaxSliderTenths == 60
AsteroidCount == 2

(***************************************************************************)
(* Exact rational arithmetic.                                              *)
(***************************************************************************)
Abs(x) == IF x < 0 THEN -x ELSE x

RECURSIVE GCD(_, _)
GCD(a, b) == IF b = 0 THEN a ELSE GCD(b, a % b)

LCM(a, b) == (a \div GCD(a, b)) * b

R(n, d) == LET g == GCD(Abs(n), d) IN <<n \div g, d \div g>>

Zero == <<0, 1>>
One == <<1, 1>>

RNeg(a) == <<-a[1], a[2]>>

RAdd(a, b) ==
    LET l == LCM(a[2], b[2])
    IN  R(a[1] * (l \div a[2]) + b[1] * (l \div b[2]), l)

RSub(a, b) == RAdd(a, RNeg(b))

RMul(a, b) ==
    LET g1 == GCD(Abs(a[1]), b[2])
        g2 == GCD(Abs(b[1]), a[2])
    IN  R((a[1] \div g1) * (b[1] \div g2), (a[2] \div g2) * (b[2] \div g1))

RLe(a, b) ==
    LET l == LCM(a[2], b[2])
    IN  a[1] * (l \div a[2]) <= b[1] * (l \div b[2])

RLt(a, b) == RLe(a, b) /\ a # b

RAbs(a) == <<Abs(a[1]), a[2]>>

\* JavaScript's a % 1: the remainder has the sign of the dividend.
RMod1(a) ==
    IF a[1] >= 0 THEN R(a[1] % a[2], a[2])
    ELSE R(-((-a[1]) % a[2]), a[2])

(***************************************************************************)
(* Elapsed times and angles: q * (pi/2) + n * theta + s.                   *)
(***************************************************************************)
T(q, n, s) == [q |-> q, n |-> n, s |-> s]

TimeZero == T(0, 0, Zero)

\* The value in millionths, rounded down: pi/2 = 1.570796..., theta =
\* 0.643501...; used only to order the sampled times.
Micros(t) == t.q * 1570796 + t.n * 643501 + ((t.s[1] * 1000000) \div t.s[2])

TimeLe(a, b) == a = b \/ Micros(a) < Micros(b)

\* The rational number of seconds of a time without pi/2 or theta part.
Seconds(t) == CASE t.q = 0 /\ t.n = 0 -> t.s

\* time * k for a rational k: the pi/2 and theta parts must stay whole.
Scale(t, k) ==
    LET qq == RMul(R(t.q, 1), k)
        nn == RMul(R(t.n, 1), k)
    IN  CASE qq[2] = 1 /\ nn[2] = 1 -> T(qq[1], nn[1], RMul(t.s, k))

Plus(a, b) == T(a.q + b.q, a.n + b.n, RAdd(a.s, b.s))

RECURSIVE Pow5(_)
Pow5(n) == IF n = 0 THEN 1 ELSE 5 * Pow5(n - 1)

RECURSIVE SinThetaNum(_), CosThetaNum(_)
\* Numerators of sin(n * theta) and cos(n * theta) over 5^n, by the angle
\* addition formulas with sin(theta) = 3/5, cos(theta) = 4/5.
SinThetaNum(n) ==
    IF n = 0 THEN 0 ELSE 4 * SinThetaNum(n - 1) + 3 * CosThetaNum(n - 1)

CosThetaNum(n) ==
    IF n = 0 THEN 1 ELSE 4 * CosThetaNum(n - 1) - 3 * SinThetaNum(n - 1)

\* Math.sin on an angle q * (pi/2) + n * theta (n >= 0).
Sin(a) ==
    LET sn == R(SinThetaNum(a.n), Pow5(a.n))
        cs == R(CosThetaNum(a.n), Pow5(a.n))
    IN  CASE a.s = Zero /\ a.q % 4 = 0 -> sn
          [] a.s = Zero /\ a.q % 4 = 1 -> cs
          [] a.s = Zero /\ a.q % 4 = 2 -> RNeg(sn)
          [] a.s = Zero /\ a.q % 4 = 3 -> RNeg(cs)

\* Math.cos on an angle q * (pi/2) + n * theta (n >= 0).
Cos(a) ==
    LET sn == R(SinThetaNum(a.n), Pow5(a.n))
        cs == R(CosThetaNum(a.n), Pow5(a.n))
    IN  CASE a.s = Zero /\ a.q % 4 = 0 -> cs
          [] a.s = Zero /\ a.q % 4 = 1 -> RNeg(sn)
          [] a.s = Zero /\ a.q % 4 = 2 -> RNeg(cs)
          [] a.s = Zero /\ a.q % 4 = 3 -> sn

(***************************************************************************)
(* Wormhole (lines 203-296).                                               *)
(***************************************************************************)
NumRings == 15
RingIndex == 0 .. (NumRings - 1)

\* rings[i] of the useMemo at lines 209-219 (the random initial rotation is
\* kept out: every ring rotation below is relative to it).
RingData(i) == [radius |-> R(i * 2 + 5, 10), speed |-> R(2, 100 * (i + 1))]

\* line 229
Progress_NoWrap(time, i) == RMul(Seconds(time), RingData(i).speed)

Progress(time, i) == RMod1(RMul(Seconds(time), RingData(i).speed))

\* line 230
RingDepth_NoReset(active, progress) == RMul(R(-10, 1), progress)

RingDepth(active, progress) ==
    IF active THEN RMul(R(-10, 1), progress) ELSE Zero

\* line 234
RingScale_Grow(active, progress) ==
    IF active THEN RAdd(One, RMul(progress, R(1, 2))) ELSE One

RingScale(active, progress) ==
    IF active THEN RSub(One, RMul(progress, R(1, 2))) ELSE One

\* line 243
RingOpacity(active, progress) ==
    IF active THEN RSub(R(7, 10), RMul(progress, R(1, 2))) ELSE R(1, 2)

\* lines 238-239
RingRotStepX == R(1, 1000)
RingRotStepZ == R(2, 1000)
\* line 248
GroupRotStep == R(1, 1000)

\* The mounted ring meshes before the first frame: default position and
\* scale, material opacity 0.5 (line 268).
RingInit ==
    [z |-> Zero, sx |-> One, sy |-> One, sz |-> One,
     rotX |-> Zero, rotZ |-> Zero, opacity |-> R(1, 2)]

WormholeInit ==
    [active |-> FALSE, time |-> TimeZero, frames |-> 0, rotZ |-> Zero,
     rings |-> [i \in RingIndex |-> RingInit]]

\* The body of ringsRefs.current.forEach, lines 225-245, for ring i.
RingUseFrame(ring, i, active, time) ==
    LET progress == Progress(time, i)
        scale == RingScale(active, progress)
    IN  [ring EXCEPT !.z = RingDepth(active, progress),
                     !.sx = scale,
                     !.sy = scale,
                     !.sz = One,
                     !.rotX = RAdd(ring.rotX, RingRotStepX),
                     !.rotZ = RAdd(ring.rotZ, RingRotStepZ),
                     !.opacity = RingOpacity(active, progress)]

\* The useFrame callback, lines 221-249, reading elapsed time `time`.
WormholeUseFrame(w, time) ==
    [w EXCEPT !.time = time,
              !.frames = w.frames + 1,
              !.rings = [i \in RingIndex |-> RingUseFrame(w.rings[i], i, w.active, time)],
              !.rotZ = RAdd(w.rotZ, GroupRotStep)]

\* onClick, line 255: setActive(!active)
WormholeOnClick_Latch(w) == [w EXCEPT !.active = TRUE]

WormholeOnClick(w) == [w EXCEPT !.active = ~w.active]

(***************************************************************************)
(* PlanetSystem (lines 80-200).                                            *)
(***************************************************************************)
NumMoons == 3
MoonIndex == 0 .. (NumMoons - 1)

\* The planet mesh, the ring mesh, the moon orbit group and the moon meshes
\* as mounted: default transforms, hovered = selected = false.
PlanetInit ==
    [hovered |-> FALSE, selected |-> FALSE, scale |-> One,
     rotY |-> Zero, posY |-> Zero, ringRotZ |-> Zero,
     moonOrbitRotY |-> Zero, moonRotY |-> [i \in MoonIndex |-> Zero],
     time |-> TimeZero, frames |-> 0]

\* line 106
PlanetWobble(time) == RMul(Sin(Scale(time, R(3, 1))), R(1, 10))

\* A frame callback that returns the planet to its rest height when it is not
\* selected.
PlanetUseFrame_Reset(p, time) ==
    [p EXCEPT !.time = time,
              !.frames = p.frames + 1,
              !.rotY = RAdd(p.rotY, R(5, 1000)),
              !.ringRotZ = RAdd(p.ringRotZ, R(2, 1000)),
              !.posY = IF p.selected THEN PlanetWobble(time) ELSE Zero,
              !.moonOrbitRotY = RAdd(p.moonOrbitRotY, R(5, 1000)),
              !.moonRotY = [i \in MoonIndex |-> RAdd(p.moonRotY[i], R(i + 1, 100))]]

\* The useFrame callback, lines 95-118.
PlanetUseFrame(p, time) ==
    [p EXCEPT !.time = time,
              !.frames = p.frames + 1,
              !.rotY = RAdd(p.rotY, R(5, 1000)),
              !.ringRotZ = RAdd(p.ringRotZ, R(2, 1000)),
              !.posY = IF p.selected THEN PlanetWobble(time) ELSE p.posY,
              !.moonOrbitRotY = RAdd(p.moonOrbitRotY, R(5, 1000)),
              !.moonRotY = [i \in MoonIndex |-> RAdd(p.moonRotY[i], R(i + 1, 100))]]

\* onPointerOver, line 126
PlanetOnPointerOver(p) == [p EXCEPT !.hovered = TRUE]

\* onPointerOut, line 127
PlanetOnPointerOut_Deselect(p) == [p EXCEPT !.hovered = FALSE, !.selected = FALSE]

PlanetOnPointerOut(p) == [p EXCEPT !.hovered = FALSE]

\* onClick, line 128, and the scale prop of the re-rendered mesh, line 129
PlanetOnClick(p) ==
    [p EXCEPT !.selected = ~p.selected,
              !.scale = IF ~p.selected THEN R(12, 10) ELSE One]

(***************************************************************************)
(* BlackHole (lines 10-77).                                                *)
(***************************************************************************)
\* The meshes as mounted; the disk's rotation prop is [pi/2, 0, 0], line 54.
BlackHoleInit ==
    [hover |-> FALSE, diskRotZ |-> Zero, glowScale |-> <<One, One, One>>,
     posY |-> Zero, time |-> TimeZero, frames |-> 0]

\* The useFrame callback, lines 16-28.
BlackHoleUseFrame(b, time) ==
    LET pulseScale == RAdd(One, RMul(Sin(time), R(5, 100)))
        glow == RMul(pulseScale, R(3, 1))
    IN  [b EXCEPT !.time = time,
                  !.frames = b.frames + 1,
                  !.diskRotZ = RAdd(b.diskRotZ, R(1, 1000)),
                  !.glowScale = <<glow, glow, glow>>,
                  !.posY = RMul(Sin(Scale(time, R(2, 10))), R(2, 10))]

(***************************************************************************)
(* ControlPanel (lines 333-418).                                           *)
(***************************************************************************)
\* Canvas camera prop, line 552
CameraInit == <<Zero, R(2, 1), R(15, 1)>>

\* The group as mounted: default position and scale, not yet oriented.
PanelInit ==
    [expanded |-> FALSE, scale |-> <<One, One, One>>,
     pos |-> <<Zero, Zero, Zero>>, lookAt |-> <<>>, frames |-> 0]

\* line 347
PanelTargetScale(expanded) == IF expanded THEN One ELSE R(1, 2)

\* three's Vector3.lerp, per component: a += (b - a) * alpha
Lerp_Away(a, b, alpha) == RAdd(a, RMul(RSub(a, b), alpha))

Lerp(a, b, alpha) == RAdd(a, RMul(RSub(b, a), alpha))

\* The useFrame callback, lines 338-349, with the camera at `camera`.
PanelUseFrame(pn, camera) ==
    LET targetScale == PanelTargetScale(pn.expanded)
    IN  [pn EXCEPT !.frames = pn.frames + 1,
                   !.pos = <<Zero, R(-8, 10), R(-2, 1)>>,
                   !.lookAt = camera,
                   !.scale = <<Lerp(pn.scale[1], targetScale, R(1, 10)),
                               Lerp(pn.scale[2], targetScale, R(1, 10)),
                               Lerp(pn.scale[3], targetScale, R(1, 10))>>]

\* onClick, line 356
PanelOnClick(pn) == [pn EXCEPT !.expanded = ~pn.expanded]

(***************************************************************************)
(* PulsatingStar (lines 486-544).                                          *)
(***************************************************************************)
\* The core and glow meshes as mounted; no frame has chosen a pulse speed.
StarInit ==
    [hovered |-> FALSE, core |-> <<One, One, One>>, glow |-> <<One, One, One>>,
     pulseSpeed |-> 0, time |-> TimeZero, frames |-> 0]

\* line 495
PulseSpeed_Ignore(hovered) == 2

PulseSpeed(hovered) == IF hovered THEN 5 ELSE 2

\* line 496
PulseScale(time, pulseSpeed) ==
    RAdd(One, RMul(Sin(Scale(time, R(pulseSpeed, 1))), R(2, 10)))

\* line 500
GlowScale_Offset(pulseScale) == RAdd(pulseScale, One)

GlowScale(pulseScale) == RMul(pulseScale, R(2, 1))

\* The useFrame callback, lines 491-502.
StarUseFrame(st, time) ==
    LET pulseSpeed == PulseSpeed(st.hovered)
        pulseScale == PulseScale(time, pulseSpeed)
        glowScale == GlowScale(pulseScale)
    IN  [st EXCEPT !.time = time,
                   !.frames = st.frames + 1,
                   !.pulseSpeed = pulseSpeed,
                   !.core = <<pulseScale, pulseScale, pulseScale>>,
                   !.glow = <<glowScale, glowScale, glowScale>>]

\* onPointerOver, line 507
StarOnPointerOver(st) == [st EXCEPT !.hovered = TRUE]

\* onPointerOut, line 508
StarOnPointerOut(st) == [st EXCEPT !.hovered = FALSE]

(***************************************************************************)
(* AsteroidField (lines 421-483).                                          *)
(***************************************************************************)
\* Math.sqrt, on the squares of rationals.
ISqrt(v) == CHOOSE r \in 0 .. v : r * r = v

RSqrt(a) == <<ISqrt(a[1]), ISqrt(a[2])>>

\* Values the random generator of lines 425-441 can produce: position
\* coordinates in [-30, 30], speed in [0.002, 0.012), rotationSpeed in
\* [0, 0.01), orbit in [0, 2 pi).
AsteroidChoices ==
    { [position |-> <<Zero, R(7, 1), Zero>>, speed |-> R(1, 100),
       rotationSpeed |-> Zero, orbit |-> T(1, 1, Zero)],
      [position |-> <<R(3, 1), R(-2, 1), R(4, 1)>>, speed |-> R(1, 200),
       rotationSpeed |-> R(1, 200), orbit |-> T(0, 1, Zero)],
      [position |-> <<R(-8, 1), R(5, 1), R(6, 1)>>, speed |-> R(1, 100),
       rotationSpeed |-> R(1, 125), orbit |-> T(3, 0, Zero)] }

\* A mesh as mounted at data.position, lines 467-472 (its rotation is kept
\* relative to the random data.rotation).
AsteroidInit(data) ==
    [data |-> data, pos |-> data.position, rot |-> <<Zero, Zero, Zero>>]

\* line 453
OrbitRadius(data) ==
    RSqrt(RAdd(RMul(data.position[1], data.position[1]),
               RMul(data.position[3], data.position[3])))

\* line 454
AsteroidX(data, time) ==
    RMul(Sin(Plus(Scale(time, data.speed), data.orbit)), OrbitRadius(data))

\* line 455
AsteroidZ_Sin(data, time) ==
    RMul(Sin(Plus(Scale(time, data.speed), data.orbit)), OrbitRadius(data))

AsteroidZ(data, time) ==
    RMul(Cos(Plus(Scale(time, data.speed), data.orbit)), OrbitRadius(data))

\* The body of asteroidsRef.current.forEach, lines 447-461.
AsteroidUseFrame(a, time) ==
    [a EXCEPT !.pos = <<AsteroidX(a.data, time), a.pos[2], AsteroidZ(a.data, time)>>,
              !.rot = <<RAdd(a.rot[1], a.data.rotationSpeed),
                        RAdd(a.rot[2], RMul(a.data.rotationSpeed, R(8, 10))),
                        RAdd(a.rot[3], RMul(a.data.rotationSpeed, R(6, 10)))>>]

\* The useFrame callback, lines 444-462.
FieldUseFrame(f, time) ==
    [f EXCEPT !.time = time,
              !.frames = f.frames + 1,
              !.list = [i \in DOMAIN f.list |-> AsteroidUseFrame(f.list[i], time)]]

(***************************************************************************)
(* Scene: the starfield speed slider (lines 547-632).                      *)
(***************************************************************************)
DigitChars == <<"0", "1", "2", "3", "4", "5", "6", "7", "8", "9">>

IsDigit(c) == \E i \in 1 .. 10 : DigitChars[i] = c

DigitVal(c) == (CHOOSE i \in 1 .. 10 : DigitChars[i] = c) - 1

RECURSIVE Pow10(_)
Pow10(n) == IF n = 0 THEN 1 ELSE 10 * Pow10(n - 1)

\* The first index at or after i that holds no digit.
RECURSIVE DigitsEnd(_, _)
DigitsEnd(str, i) ==
    IF i <= Len(str) /\ IsDigit(str[i]) THEN DigitsEnd(str, i + 1) ELSE i

\* The number written by the digits str[i..j].
RECURSIVE NumOf(_, _, _)
NumOf(str, i, j) ==
    IF i > j THEN 0 ELSE NumOf(str, i, j - 1) * 10 + DigitVal(str[j])

\* NaN, kept apart from every rational by its denominator 0.
NaN == <<0, 0>>

IsNaN(x) == x[2] = 0

\* parseFloat on a string of characters: an optional sign, digits, an
\* optional fraction; "NaN" when no digit is found.
ParseFloat(str) ==
    LET signed == Len(str) > 0 /\ str[1] \in {"-", "+"}
        start == IF signed THEN 2 ELSE 1
        intEnd == DigitsEnd(str, start)
        hasDot == intEnd <= Len(str) /\ str[intEnd] = "."
        fracEnd == IF hasDot THEN DigitsEnd(str, intEnd + 1) ELSE intEnd
        nFrac == IF hasDot THEN fracEnd - intEnd - 1 ELSE 0
        mag == RAdd(R(NumOf(str, start, intEnd - 1), 1),
                    R(NumOf(str, intEnd + 1, fracEnd - 1), Pow10(nFrac)))
    IN  IF intEnd = start /\ nFrac = 0 THEN NaN
        ELSE IF signed /\ str[1] = "-" THEN RNeg(mag) ELSE mag

RECURSIVE IntDigits(_)
IntDigits(n) ==
    IF n < 10 THEN <<DigitChars[n + 1]>>
    ELSE IntDigits(n \div 10) \o <<DigitChars[(n % 10) + 1]>>

\* The string e.target.value of a number of tenths k, as "0.5", "2", "-1.3".
ValueString(k) ==
    (IF k < 0 THEN <<"-">> ELSE <<>>)
    \o IntDigits(Abs(k) \div 10)
    \o (IF Abs(k) % 10 = 0 THEN <<>> ELSE <<".", DigitChars[(Abs(k) % 10) + 1]>>)

\* useState(0.5), line 548
StarfieldSpeedInit == R(5, 10)

\* onChange, line 629: setStarfieldSpeed(parseFloat(e.target.value))
SliderOnChange(speed, value) == ParseFloat(value)

(***************************************************************************)
(* Sampled clock readings and inputs.                                      *)
(***************************************************************************)
\* Elapsed times sampled for the wormhole: multiples of 12.5 s.
WormholeTimes == {T(0, 0, R(25 * k, 2)) : k \in 0 .. MaxTick}

\* Elapsed times sampled for the planet and the star.
AngularTimes == {T(a, b, Zero) : a \in 0 .. MaxQuarter, b \in 0 .. MaxTheta}

\* Elapsed times sampled for the asteroid field: time * speed stays an
\* angle of the form q * (pi/2) + n * theta for the speeds 1/100 and 1/200.
FieldTimes == {T(200 * a, 200 * b, Zero) : a \in 0 .. MaxQuarter, b \in 0 .. MaxTheta}

\* Elapsed times sampled for a frame of the whole scene.
SceneTimes == {T(200 * a, 0, Zero) : a \in 0 .. MaxSceneTick}

\* Camera positions OrbitControls (lines 600-607) can produce.
CameraPositions == {CameraInit, <<R(3, 1), R(2, 1), R(14, 1)>>}

\* Strings an onChange event can carry in e.target.value.
SliderValues == {ValueString(k) : k \in (-MaxSliderTenths) .. MaxSliderTenths}

\* The asteroid fields the useMemo of lines 425-442 can generate.
Fields ==
    { [list |-> [i \in 1 .. AsteroidCount |-> AsteroidInit(d[i])],
       time |-> TimeZero, frames |-> 0] :
      d \in [1 .. AsteroidCount -> AsteroidChoices] }

(***************************************************************************)
(* State.  `other` is a second run of the scene from the same construction *)
(* (the same random parameters), used to compare runs; `hist` records the  *)
(* events and frames of the run, to state the claims.                      *)
(***************************************************************************)
VARIABLES wormhole, planet, blackhole, panel, star, field, starfieldSpeed,
          other, hist

vars == <<wormhole, planet, blackhole, panel, star, field, starfieldSpeed,
          other, hist>>

\* wClicks: clicks on the wormhole; wFramedSinceClick: a wormhole frame ran
\* since the last click; wDeep: some ring has had a nonzero depth; wTrace:
\* the value of `active` in each wormhole frame; pClicks: clicks on the
\* planet; pPointer: the planet's last pointer event; pnRun: panel frames
\* since the last panel click; sFramedSinceEvent: a star frame ran since
\* the last pointer event; sSpeeds: the pulse speed of each star frame.
HistInit ==
    [wClicks |-> 0, wFramedSinceClick |-> FALSE, wDeep |-> FALSE,
     wTrace |-> <<>>, pClicks |-> 0, pPointer |-> "none",
     pFramedSinceClick |-> FALSE, pnRun |-> 0,
     sFramedSinceEvent |-> FALSE, sSpeeds |-> <<>>]

Init ==
    /\ wormhole = WormholeInit
    /\ planet = PlanetInit
    /\ blackhole = BlackHoleInit
    /\ panel = PanelInit
    /\ star = StarInit
    /\ field \in Fields
    /\ starfieldSpeed = StarfieldSpeedInit
    /\ other = [blackhole |-> BlackHoleInit, planet |-> PlanetInit,
                wormhole |-> WormholeInit, panel |-> PanelInit, field |-> field]
    /\ hist = HistInit

(***************************************************************************)
(* Wormhole actions.                                                       *)
(***************************************************************************)
WormholeClick ==
    /\ hist.wClicks < MaxClicks
    /\ wormhole' = WormholeOnClick(wormhole)
    /\ hist' = [hist EXCEPT !.wClicks = @ + 1, !.wFramedSinceClick = FALSE]
    /\ UNCHANGED <<planet, blackhole, panel, star, field, starfieldSpeed, other>>

WormholeFrame ==
    /\ wormhole.frames < MaxFrames
    /\ \E t \in WormholeTimes :
          /\ TimeLe(wormhole.time, t)
          /\ wormhole' = WormholeUseFrame(wormhole, t)
    /\ hist' = [hist EXCEPT
                  !.wFramedSinceClick = TRUE,
                  !.wDeep = @ \/ (\E i \in RingIndex : wormhole'.rings[i].z # Zero),
                  !.wTrace = Append(@, wormhole.active)]
    /\ UNCHANGED <<planet, blackhole, panel, star, field, starfieldSpeed, other>>

NextWormhole == WormholeClick \/ WormholeFrame

SpecWormhole == Init /\ [][NextWormhole]_vars

(***************************************************************************)
(* Planet actions.                                                         *)
(***************************************************************************)
PlanetPointerOver ==
    /\ planet' = PlanetOnPointerOver(planet)
    /\ hist' = [hist EXCEPT !.pPointer = "over"]
    /\ UNCHANGED <<wormhole, blackhole, panel, star, field, starfieldSpeed, other>>

PlanetPointerOut ==
    /\ planet' = PlanetOnPointerOut(planet)
    /\ hist' = [hist EXCEPT !.pPointer = "out"]
    /\ UNCHANGED <<wormhole, blackhole, panel, star, field, starfieldSpeed, other>>

PlanetClick ==
    /\ hist.pClicks < MaxClicks
    /\ planet' = PlanetOnClick(planet)
    /\ hist' = [hist EXCEPT !.pClicks = @ + 1, !.pFramedSinceClick = FALSE]
    /\ UNCHANGED <<wormhole, blackhole, panel, star, field, starfieldSpeed, other>>

PlanetFrame ==
    /\ planet.frames < MaxFrames
    /\ \E t \in AngularTimes :
          /\ TimeLe(planet.time, t)
          /\ planet' = PlanetUseFrame(planet, t)
    /\ hist' = [hist EXCEPT !.pFramedSinceClick = TRUE]
    /\ UNCHANGED <<wormhole, blackhole, panel, star, field, starfieldSpeed, other>>

NextPlanet == PlanetPointerOver \/ PlanetPointerOut \/ PlanetClick \/ PlanetFrame

SpecPlanet == Init /\ [][NextPlanet]_vars

(***************************************************************************)
(* Control panel actions.                                                  *)
(***************************************************************************)
PanelClick ==
    /\ panel' = PanelOnClick(panel)
    /\ hist' = [hist EXCEPT !.pnRun = 0]
    /\ UNCHANGED <<wormhole, planet, blackhole, star, field, starfieldSpeed, other>>

PanelFrame ==
    /\ panel.frames < MaxPanelFrames
    /\ \E camera \in CameraPositions : panel' = PanelUseFrame(panel, camera)
    /\ hist' = [hist EXCEPT !.pnRun = @ + 1]
    /\ UNCHANGED <<wormhole, planet, blackhole, star, field, starfieldSpeed, other>>

NextPanel == PanelClick \/ PanelFrame

SpecPanel == Init /\ [][NextPanel]_vars

(***************************************************************************)
(* Pulsating star actions.                                                 *)
(***************************************************************************)
StarPointerOver ==
    /\ star' = StarOnPointerOver(star)
    /\ hist' = [hist EXCEPT !.sFramedSinceEvent = FALSE]
    /\ UNCHANGED <<wormhole, planet, blackhole, panel, field, starfieldSpeed, other>>

StarPointerOut ==
    /\ star' = StarOnPointerOut(star)
    /\ hist' = [hist EXCEPT !.sFramedSinceEvent = FALSE]
    /\ UNCHANGED <<wormhole, planet, blackhole, panel, field, starfieldSpeed, other>>

StarFrame ==
    /\ star.frames < MaxFrames
    /\ \E t \in AngularTimes :
          /\ TimeLe(star.time, t)
          /\ star' = StarUseFrame(star, t)
    /\ hist' = [hist EXCEPT !.sFramedSinceEvent = TRUE,
                            !.sSpeeds = Append(@, star'.pulseSpeed)]
    /\ UNCHANGED <<wormhole, planet, blackhole, panel, field, starfieldSpeed, other>>

NextStar == StarPointerOver \/ StarPointerOut \/ StarFrame

SpecStar == Init /\ [][NextStar]_vars

(***************************************************************************)
(* Asteroid field action.                                                  *)
(***************************************************************************)
FieldFrame ==
    /\ field.frames < MaxFrames
    /\ \E t \in FieldTimes :
          /\ TimeLe(field.time, t)
          /\ field' = FieldUseFrame(field, t)
    /\ UNCHANGED <<wormhole, planet, blackhole, panel, star, starfieldSpeed, other, hist>>

NextField == FieldFrame

SpecField == Init /\ [][NextField]_vars

(***************************************************************************)
(* Slider action.                                                          *)
(***************************************************************************)
SliderChange ==
    /\ \E value \in SliderValues :
          starfieldSpeed' = SliderOnChange(starfieldSpeed, value)
    /\ UNCHANGED <<wormhole, planet, blackhole, panel, star, field, other, hist>>

NextSlider == SliderChange

SpecSlider == Init /\ [][NextSlider]_vars

(***************************************************************************)
(* Two runs of the scene.  One frame runs the useFrame callbacks of the    *)
(* black hole, the planet system, the wormhole, the asteroid field and the *)
(* control panel; here they all read the same elapsed time, later than the *)
(* time the previous frame read.                                           *)
(***************************************************************************)
SceneUseFrame(sc, time) ==
    [blackhole |-> BlackHoleUseFrame(sc.blackhole, time),
     planet |-> PlanetUseFrame(sc.planet, time),
     wormhole |-> WormholeUseFrame(sc.wormhole, time),
     panel |-> PanelUseFrame(sc.panel, CameraInit),
     field |-> FieldUseFrame(sc.field, time)]

ThisScene ==
    [blackhole |-> blackhole, planet |-> planet, wormhole |-> wormhole,
     panel |-> panel, field |-> field]

SceneFrame ==
    /\ blackhole.frames < MaxSceneFrames
    /\ \E t \in SceneTimes :
          /\ TimeLe(blackhole.time, t)
          /\ blackhole.frames > 0 => t # blackhole.time
          /\ LET sc == SceneUseFrame(ThisScene, t)
             IN  /\ blackhole' = sc.blackhole
                 /\ planet' = sc.planet
                 /\ wormhole' = sc.wormhole
                 /\ panel' = sc.panel
                 /\ field' = sc.field
    /\ UNCHANGED <<star, starfieldSpeed, other, hist>>

OtherSceneFrame ==
    /\ other.blackhole.frames < MaxSceneFrames
    /\ \E t \in SceneTimes :
          /\ TimeLe(other.blackhole.time, t)
          /\ other.blackhole.frames > 0 => t # other.blackhole.time
          /\ other' = SceneUseFrame(other, t)
    /\ UNCHANGED <<wormhole, planet, blackhole, panel, star, field, starfieldSpeed, hist>>

NextScene == SceneFrame \/ OtherSceneFrame

SpecScene == Init /\ [][NextScene]_vars

(***************************************************************************)
(* Claims about the wormhole.                                              *)
(***************************************************************************)
IsWormholeFrame == wormhole'.frames = wormhole.frames + 1

LastFrameActive ==
    /\ Len(hist.wTrace) > 0
    /\ hist.wTrace[Len(hist.wTrace)]

LastFrameInactive ==
    /\ Len(hist.wTrace) > 0
    /\ ~hist.wTrace[Len(hist.wTrace)]

\* C1: `active` is a Boolean that starts false and is true exactly after an
\* odd number of clicks, whatever frames ran in between; in the first frame
\* after a click every ring's depth is -10 * p_i when active (nonzero
\* whenever p_i # 0) and 0 when inactive.
C1_ClickTogglesActive ==
    /\ wormhole.active \in BOOLEAN
    /\ wormhole.active = (hist.wClicks % 2 = 1)
    /\ hist.wFramedSinceClick =>
          \A i \in RingIndex :
             LET p == Progress(wormhole.time, i)
                 z == wormhole.rings[i].z
             IN  IF wormhole.active
                 THEN /\ z = RMul(R(-10, 1), p)
                      /\ (p # Zero) => (z # Zero)
                 ELSE z = Zero

\* C1 witness: after a second click, a frame has put every ring back at
\* depth 0 although some ring had a nonzero depth before.
C1_Witness ==
    /\ hist.wClicks = 2
    /\ hist.wFramedSinceClick
    /\ hist.wDeep
    /\ ~wormhole.active
    /\ \A i \in RingIndex : wormhole.rings[i].z = Zero

\* C2 as stated: a frame with active = false that follows an inactive frame
\* leaves every ring (position, rotation, scale, opacity) as it was, at
\* depth 0, scale (1,1,1) and opacity 0.5.
C2_InactiveFrameIsNoOp ==
    [][(IsWormholeFrame /\ ~wormhole.active) =>
          /\ \A i \in RingIndex :
                /\ wormhole'.rings[i].z = Zero
                /\ wormhole'.rings[i].sx = One
                /\ wormhole'.rings[i].sy = One
                /\ wormhole'.rings[i].sz = One
                /\ wormhole'.rings[i].opacity = R(1, 2)
          /\ LastFrameInactive => wormhole'.rings = wormhole.rings]_vars

\* C2 amended: a frame with active = false puts every ring at depth 0, scale
\* (1,1,1) and opacity 0.5, so consecutive inactive frames leave position,
\* scale and opacity unchanged; but it still advances every ring's rotation
\* by 0.001 in x and 0.002 in z.
C2_InactivePoseButRotating ==
    [][(IsWormholeFrame /\ ~wormhole.active) =>
          \A i \in RingIndex :
             /\ wormhole'.rings[i].z = Zero
             /\ wormhole'.rings[i].sx = One
             /\ wormhole'.rings[i].sy = One
             /\ wormhole'.rings[i].sz = One
             /\ wormhole'.rings[i].opacity = R(1, 2)
             /\ wormhole'.rings[i].rotX = RAdd(wormhole.rings[i].rotX, R(1, 1000))
             /\ wormhole'.rings[i].rotZ = RAdd(wormhole.rings[i].rotZ, R(2, 1000))
             /\ LastFrameInactive =>
                   /\ wormhole'.rings[i].z = wormhole.rings[i].z
                   /\ wormhole'.rings[i].sx = wormhole.rings[i].sx
                   /\ wormhole'.rings[i].sy = wormhole.rings[i].sy
                   /\ wormhole'.rings[i].sz = wormhole.rings[i].sz
                   /\ wormhole'.rings[i].opacity = wormhole.rings[i].opacity]_vars

\* C2 witness: an active frame with a ring at nonzero depth, then two
\* consecutive inactive frames.
C2_Witness ==
    /\ hist.wTrace = <<TRUE, FALSE, FALSE>>
    /\ hist.wDeep
    /\ \A i \in RingIndex : wormhole.rings[i].z = Zero

\* C3: for every ring and every sampled elapsed time the progress lies in
\* [0,1); after a frame computed while active the depth lies in (-10,0], the
\* x/y scale in (0.5,1] and the opacity in (0.2,0.7], and they are the
\* decreasing linear functions -10p, 1 - p/2 and 0.7 - p/2 of the progress.
C3_ProgressAndRanges ==
    /\ \A i \in RingIndex : \A t \in WormholeTimes :
          /\ RLe(Zero, Progress(t, i))
          /\ RLt(Progress(t, i), One)
    /\ LastFrameActive =>
          \A i \in RingIndex :
             LET p == RMod1(RMul(wormhole.time.s, R(2, 100 * (i + 1))))
                 ring == wormhole.rings[i]
             IN  /\ RLt(R(-10, 1), ring.z) /\ RLe(ring.z, Zero)
                 /\ RLt(R(1, 2), ring.sx) /\ RLe(ring.sx, One)
                 /\ ring.sy = ring.sx
                 /\ RLt(R(2, 10), ring.opacity) /\ RLe(ring.opacity, R(7, 10))
                 /\ ring.z = RMul(R(-10, 1), p)
                 /\ ring.sx = RSub(One, RMul(p, R(1, 2)))
                 /\ ring.opacity = RSub(R(7, 10), RMul(p, R(1, 2)))

\* C3 witness: an active frame at an elapsed time past the first ring's
\* wrap-around (50 s), with rings at nonzero depth.
C3_Witness ==
    /\ LastFrameActive
    /\ RLt(R(50, 1), wormhole.time.s)
    /\ wormhole.rings[0].z # Zero
    /\ wormhole.rings[14].z # Zero

(***************************************************************************)
(* Claim about the planet's interaction state.                             *)
(***************************************************************************)
\* C4: after any sequence of pointer-over, pointer-out and click events on
\* the planet (and frames), selected is true exactly after an odd number of
\* clicks, and hovered is true exactly when the last pointer event was a
\* pointer-over: neither pointer event changes selected, a click does not
\* change hovered.
C4_PlanetStateMachine ==
    /\ planet.selected = (hist.pClicks % 2 = 1)
    /\ planet.hovered = (hist.pPointer = "over")

\* C4 witness: the planet is still selected after the pointer has left it.
C4_Witness ==
    /\ hist.pClicks = 3
    /\ hist.pPointer = "out"
    /\ planet.selected
    /\ ~planet.hovered
    /\ planet.frames > 0

(***************************************************************************)
(* Claim about two runs of the scene.                                      *)
(***************************************************************************)
\* C5: two runs from the same construction whose last frame read the same
\* elapsed time, in the same interaction state, have the same position,
\* rotation and scale for the black hole disk, the planet, its ring, the
\* moon orbit group, the moons, the wormhole group and rings, the asteroids
\* and the control panel, however many frames each run has executed.
C5_SameTimeSameTransforms ==
    ( /\ blackhole.frames > 0
      /\ other.blackhole.frames > 0
      /\ blackhole.time = other.blackhole.time
      /\ planet.time = other.planet.time
      /\ wormhole.time = other.wormhole.time
      /\ field.time = other.field.time
      /\ planet.hovered = other.planet.hovered
      /\ planet.selected = other.planet.selected
      /\ wormhole.active = other.wormhole.active
      /\ panel.expanded = other.panel.expanded )
    =>
    ( /\ blackhole.diskRotZ = other.blackhole.diskRotZ
      /\ planet.posY = other.planet.posY
      /\ planet.rotY = other.planet.rotY
      /\ planet.scale = other.planet.scale
      /\ planet.ringRotZ = other.planet.ringRotZ
      /\ planet.moonOrbitRotY = other.planet.moonOrbitRotY
      /\ planet.moonRotY = other.planet.moonRotY
      /\ wormhole.rotZ = other.wormhole.rotZ
      /\ wormhole.rings = other.wormhole.rings
      /\ field.list = other.field.list
      /\ panel.pos = other.panel.pos
      /\ panel.lookAt = other.panel.lookAt
      /\ panel.scale = other.panel.scale )

(***************************************************************************)
(* Claim about the control panel.                                          *)
(***************************************************************************)
IsPanelFrame == panel'.frames = panel.frames + 1

\* C6: a frame moves every component of the panel's scale toward the target
\* (1 when expanded, 0.5 when collapsed): its distance to the target does
\* not increase and it does not cross to the other side of the target.
C6_LerpTowardTarget ==
    [][IsPanelFrame =>
          LET target == IF panel.expanded THEN One ELSE R(1, 2)
          IN  \A c \in 1 .. 3 :
                 /\ RLe(RAbs(RSub(panel'.scale[c], target)),
                        RAbs(RSub(panel.scale[c], target)))
                 /\ RLe(target, panel.scale[c]) => RLe(target, panel'.scale[c])
                 /\ RLe(panel.scale[c], target) => RLe(panel'.scale[c], target)]_vars

\* C6 witness: at least two consecutive frames with the panel expanded,
\* started from a scale below 1 that collapsed frames had reached.
C6_Witness ==
    /\ panel.expanded
    /\ hist.pnRun >= 2
    /\ panel.frames > hist.pnRun
    /\ RLt(R(1, 2), panel.scale[1])
    /\ RLt(panel.scale[1], One)

C9_CoreAndGlowInLockstep ==
    star.frames > 0 =>
       LET c == star.core[1]
       IN  /\ star.core = <<c, c, c>>
           /\ c = RAdd(One, RMul(Sin(Scale(star.time, R(star.pulseSpeed, 1))), R(1, 5)))
           /\ RLe(R(8, 10), c)
           /\ RLe(c, R(12, 10))
           /\ star.glow = <<RMul(R(2, 1), c), RMul(R(2, 1), c), RMul(R(2, 1), c)>>

\* C9 witness: a frame that put the core at its largest scale, 1.2, and the
\* glow at 2.4.
C9_Witness ==
    /\ star.frames > 0
    /\ star.core[1] = R(12, 10)
    /\ star.glow[1] = R(24, 10)

(***************************************************************************)
(* Claim about the asteroid field.                                         *)
(***************************************************************************)
\* C10: every asteroid stays on the circle x^2 + z^2 = x0^2 + z0^2 around
\* the y axis and keeps its y coordinate; an asteroid generated on the axis
\* (radius 0) is at x = z = 0 after every frame.
C10_OrbitRadiusKept ==
    \A i \in DOMAIN field.list :
       LET a == field.list[i]
           rr == RAdd(RMul(a.data.position[1], a.data.position[1]),
                      RMul(a.data.position[3], a.data.position[3]))
       IN  /\ RAdd(RMul(a.pos[1], a.pos[1]), RMul(a.pos[3], a.pos[3])) = rr
           /\ a.pos[2] = a.data.position[2]
           /\ (rr = Zero /\ field.frames > 0) => (a.pos[1] = Zero /\ a.pos[3] = Zero)

\* C10 witness: after a frame, an asteroid of radius 0 rests on the axis
\* and another one has moved to a point of its circle off both axes.
C10_Witness ==
    /\ field.frames > 0
    /\ \E i \in DOMAIN field.list :
          /\ field.list[i].data.position[1] = Zero
          /\ field.list[i].data.position[3] = Zero
          /\ field.list[i].pos[1] = Zero
          /\ field.list[i].pos[3] = Zero
    /\ \E j \in DOMAIN field.list :
          /\ field.list[j].pos[1] # field.list[j].data.position[1]
          /\ field.list[j].pos[1] # Zero
          /\ field.list[j].pos[3] # Zero

(***************************************************************************)
(* Claim about the planet's height.                                        *)
(***************************************************************************)
IsPlanetFrame == planet'.frames = planet.frames + 1

\* C11: a frame executed while the planet is selected sets position.y to
\* sin(3t) * 0.1; a frame executed while it is not selected, a click and a
\* pointer event leave position.y as it was, so a deselected planet keeps
\* the height of its last selected frame instead of returning to 0.
C11_WobbleOnlyWhileSelected ==
    [][ /\ (IsPlanetFrame /\ planet.selected)
             => planet'.posY = PlanetWobble(planet'.time)
        /\ (IsPlanetFrame /\ ~planet.selected) => planet'.posY = planet.posY
        /\ ~IsPlanetFrame => planet'.posY = planet.posY ]_vars

\* C11 witness: the planet was selected, wobbled away from its rest height,
\* was deselected, and a later frame has left it off its rest height.
C11_Witness ==
    /\ hist.pClicks = 2
    /\ ~planet.selected
    /\ hist.pFramedSinceClick
    /\ planet.frames >= 2
    /\ planet.posY # Zero

====
